---- MODULE Spec2Model ----
(***************************************************************************)
(* Model of tensorx/transform.py: the sparse/dense index transformations.  *)
(*                                                                         *)
(* Every function of the module is a pure transformation, so the state is  *)
(* the last call made (its name and arguments) and what it returned.  One  *)
(* action per function draws the arguments from bounded sets and applies   *)
(* the function as the source computes it; a behaviour is one call (or a   *)
(* call followed by a call on its result).  The tensor-runtime primitives  *)
(* the source calls (sparse_add, sparse_retain, sparse_tensor_to_dense,    *)
(* where, boolean_mask, dropout, ...) are modelled by what their kernels   *)
(* do on the arguments the source hands them.                              *)
(*                                                                         *)
(* Tensors are rank 2.  Coordinates are 0-based as in the source; TLA+     *)
(* tuples are 1-based, so element [r][c] of a dense tensor is data[r+1]    *)
(* [c+1].                                                                  *)
(***************************************************************************)
EXTENDS Integers, Sequences, FiniteSets, TLC

VARIABLES call, ret

vars == <<call, ret>>

(***************************************************************************)
(* Bounds of the model.                                                    *)
(***************************************************************************)
\* most entries of the two SparseTensor arguments of sparse_put together
MaxEntries == 4
\* their values range over 0..MaxPutVal
MaxPutVal == 1
\* most entries of the SparseTensor argument of dense_put and sparse_dropout
MaxNnz == 2
\* the values of every other tensor range over 0..MaxVal
MaxVal == 2

\* a dense tensor argument of to_sparse has at most MaxRows x MaxCols elements
MaxRows == 2
MaxCols == 2
\* a batch of flat indices has at most MaxBatch rows and MaxActive columns,
\* a ragged index list as many rows and at most MaxActive indices a row
MaxBatch == 2
MaxActive == 2
\* flat indices range over 0..MaxIdx
MaxIdx == 1

Values == 0..MaxVal

\* dense shapes of the arguments of sparse_put, dense_put and sparse_dropout
Shapes == {<<1, 3>>, <<2, 2>>}

\* an unknown dimension of a shape (Python's None)
None == -1

(***************************************************************************)
(* Data model.                                                             *)
(***************************************************************************)
SeqsUpTo(S, n) == UNION {[1..k -> S] : k \in 0..n}

Coords(shape) == {<<r, c>> : r \in 0..(shape[1] - 1), c \in 0..(shape[2] - 1)}

Distinct(s) == \A i, j \in 1..Len(s) : i # j => s[i] # s[j]

\* the constructor keeps what it is given: no sorting, no validation
SparseTensor(indices, values, dense_shape) ==
    [indices |-> indices, values |-> values, dense_shape |-> dense_shape]

DenseTensor(shape, data) == [shape |-> shape, data |-> data]

Error(kind) == [error |-> kind]

IsError(x) == "error" \in DOMAIN x

\* SparseTensors of a shape with at most n entries of vals at pairwise distinct
\* coordinates, in any order: row-major order is a convention the
\* constructor does not enforce
SparseTensors(shape, n, vals) ==
    UNION {{SparseTensor(ix, vs, shape) :
                ix \in {s \in [1..k -> Coords(shape)] : Distinct(s)},
                vs \in [1..k -> vals]} : k \in 0..n}

\* the element arrays of the dense tensors of a shape
DenseData(shape, vals) == [1..shape[1] -> [1..shape[2] -> vals]]

(***************************************************************************)
(* Runtime primitives.                                                     *)
(***************************************************************************)
\* sparse::DimComparator::cmp: lexicographic comparison of two coordinates
cmp(a, b) ==
    IF a[1] < b[1] THEN -1
    ELSE IF a[1] > b[1] THEN 1
    ELSE IF a[2] < b[2] THEN -1
    ELSE IF a[2] > b[2] THEN 1
    ELSE 0

abs(x) == IF x < 0 THEN -x ELSE x

\* the lexicographic order the sparse kernels assume, without repeats
RowMajor(indices) == \A k \in 1..(Len(indices) - 1) : cmp(indices[k], indices[k + 1]) = -1

RECURSIVE merge(_, _, _, _, _)
\* the SparseAdd kernel's two-pointer walk from positions i and j; it trusts
\* both index lists to be in row-major order and does not check it
merge(a, b, i, j, thresh) ==
    IF i > Len(a.indices) /\ j > Len(b.indices) THEN <<>>
    ELSE IF j > Len(b.indices) THEN
        <<<<a.indices[i], a.values[i]>>>> \o merge(a, b, i + 1, j, thresh)
    ELSE IF i > Len(a.indices) THEN
        <<<<b.indices[j], b.values[j]>>>> \o merge(a, b, i, j + 1, thresh)
    ELSE IF cmp(a.indices[i], b.indices[j]) = -1 THEN
        <<<<a.indices[i], a.values[i]>>>> \o merge(a, b, i + 1, j, thresh)
    ELSE IF cmp(a.indices[i], b.indices[j]) = 1 THEN
        <<<<b.indices[j], b.values[j]>>>> \o merge(a, b, i, j + 1, thresh)
    ELSE IF thresh <= abs(a.values[i] + b.values[j]) THEN
        <<<<a.indices[i], a.values[i] + b.values[j]>>>> \o merge(a, b, i + 1, j + 1, thresh)
    ELSE merge(a, b, i + 1, j + 1, thresh)

\* sp_ops.sparse_add(a, b) with its default thresh = 0
sparse_add(a, b) ==
    LET es == merge(a, b, 1, 1, 0)
    IN  SparseTensor([k \in 1..Len(es) |-> es[k][1]],
                     [k \in 1..Len(es) |-> es[k][2]],
                     a.dense_shape)

RECURSIVE boolean_mask(_, _)
\* array_ops.boolean_mask: the elements whose mask is true, in order
boolean_mask(s, mask) ==
    IF s = <<>> THEN <<>>
    ELSE (IF Head(mask) THEN <<Head(s)>> ELSE <<>>) \o boolean_mask(Tail(s), Tail(mask))

\* a variant of sparse_retain that ignores the flags and keeps every entry
sparse_retain_all(sp, to_retain) == sp

\* sp_ops.sparse_retain: needs one flag per entry
sparse_retain(sp, to_retain) ==
    IF Len(to_retain) # Len(sp.values) THEN Error("InvalidArgument")
    ELSE SparseTensor(boolean_mask(sp.indices, to_retain),
                      boolean_mask(sp.values, to_retain),
                      sp.dense_shape)

\* math_ops.not_equal(values, 0), elementwise
not_equal_0(values) == [k \in 1..Len(values) |-> values[k] # 0]

ones(n) == [k \in 1..n |-> 1]

zeros(n) == [k \in 1..n |-> 0]

constant(v, n) == [k \in 1..n |-> v]

(***************************************************************************)
(* sparse_put                                                              *)
(***************************************************************************)
\* a variant of sparse_put without the masking step: the updates are added to
\* the entries they meet
sparse_put_unmasked(sp_tensor, sp_updates) == sparse_add(sp_tensor, sp_updates)

sparse_put(sp_tensor, sp_updates) ==
    LET update_shape == Len(sp_updates.values)
        zero_updates == SparseTensor(sp_updates.indices, zeros(update_shape),
                                     sp_updates.dense_shape)
        proto_result == sparse_add(sp_tensor, zero_updates)
        proto_shape  == Len(proto_result.values)
        proto_ones   == SparseTensor(proto_result.indices, ones(proto_shape),
                                     proto_result.dense_shape)
        sp_mask      == SparseTensor(sp_updates.indices, constant(-1, update_shape),
                                     sp_updates.dense_shape)
        to_retain    == not_equal_0(sparse_add(proto_ones, sp_mask).values)
        tensor_masked == sparse_retain(proto_result, to_retain)
    IN  IF IsError(tensor_masked) THEN tensor_masked
        ELSE sparse_add(tensor_masked, sp_updates)

(***************************************************************************)
(* dense_put, to_sparse, to_dense                                          *)
(***************************************************************************)
InBounds(c, shape) == c[1] >= 0 /\ c[1] < shape[1] /\ c[2] >= 0 /\ c[2] < shape[2]

\* sp_ops.sparse_tensor_to_dense with its default validate_indices = True and
\* default_value = 0: the indices must be in bounds, in row-major order and
\* without repeats
sparse_tensor_to_dense(sp) ==
    IF ~(RowMajor(sp.indices)
         /\ \A k \in 1..Len(sp.indices) : InBounds(sp.indices[k], sp.dense_shape))
    THEN Error("InvalidArgument")
    ELSE DenseTensor(sp.dense_shape,
            [r \in 1..sp.dense_shape[1] |-> [c \in 1..sp.dense_shape[2] |->
                IF \E k \in 1..Len(sp.indices) : sp.indices[k] = <<r - 1, c - 1>>
                THEN sp.values[CHOOSE k \in 1..Len(sp.indices) : sp.indices[k] = <<r - 1, c - 1>>]
                ELSE 0]])

\* array_ops.where(condition, x, y) on tensors of one shape
where3(condition, x, y) ==
    DenseTensor(y.shape,
        [r \in 1..y.shape[1] |-> [c \in 1..y.shape[2] |->
            IF condition[r][c] THEN x.data[r][c] ELSE y.data[r][c]]])

\* a variant of dense_put that selects by the update values, not by markers
dense_put_by_value(tensor, sp_updates) ==
    LET dense_updates == sparse_tensor_to_dense(sp_updates)
    IN  IF IsError(dense_updates) THEN dense_updates
        ELSE where3([r \in 1..tensor.shape[1] |-> [c \in 1..tensor.shape[2] |->
                        dense_updates.data[r][c] # 0]],
                    dense_updates, tensor)

dense_put(tensor, sp_updates) ==
    LET markers == ones(Len(sp_updates.values))
        sparse_marker_tensor == SparseTensor(sp_updates.indices, markers,
                                             sp_updates.dense_shape)
        dense_update_marker == sparse_tensor_to_dense(sparse_marker_tensor)
        dense_updates == sparse_tensor_to_dense(sp_updates)
    IN  IF IsError(dense_update_marker) THEN dense_update_marker
        ELSE IF IsError(dense_updates) THEN dense_updates
        ELSE where3([r \in 1..tensor.shape[1] |-> [c \in 1..tensor.shape[2] |->
                        dense_update_marker.data[r][c] # 0]],
                    dense_updates, tensor)

RECURSIVE where1(_, _)
\* array_ops.where(condition) from flat position k on: the coordinates of the
\* true elements, in row-major order
where1(condition, k) ==
    LET n == Len(condition)
        m == IF n = 0 THEN 0 ELSE Len(condition[1])
    IN  IF k >= n * m THEN <<>>
        ELSE (IF condition[(k \div m) + 1][(k % m) + 1]
              THEN <<<<k \div m, k % m>>>> ELSE <<>>) \o where1(condition, k + 1)

\* array_ops.gather_nd(tensor, indices)
gather_nd(tensor, indices) ==
    [k \in 1..Len(indices) |-> tensor.data[indices[k][1] + 1][indices[k][2] + 1]]

\* a variant of to_sparse that stores a one for every non-zero element
to_sparse_ones(tensor) ==
    LET indices == where1([r \in 1..tensor.shape[1] |-> [c \in 1..tensor.shape[2] |->
                              tensor.data[r][c] # 0]], 0)
    IN  SparseTensor(indices, ones(Len(indices)), tensor.shape)

to_sparse(tensor) ==
    LET indices == where1([r \in 1..tensor.shape[1] |-> [c \in 1..tensor.shape[2] |->
                              tensor.data[r][c] # 0]], 0)
        dense_shape == tensor.shape
        values == gather_nd(tensor, indices)
    IN  SparseTensor(indices, values, dense_shape)

\* isinstance(x, SparseTensor)
IsSparseTensor(x) == DOMAIN x = {"indices", "values", "dense_shape"}

to_dense(sp_tensor) ==
    IF ~IsSparseTensor(sp_tensor) THEN Error("TypeError")
    ELSE sparse_tensor_to_dense(sp_tensor)

(***************************************************************************)
(* batch_to_matrix_indices, index_list_to_sparse                           *)
(***************************************************************************)
\* tensorx.utils.to_tensor_cast: the tensor converted to the given element
\* type; the flat indices of the model lie in the range of both integer
\* widths, so the conversion keeps their values
to_tensor_cast(tensor, dtype) ==
    [shape |-> tensor.shape, data |-> tensor.data, dtype |-> dtype]

RECURSIVE flatten(_)
\* array_ops.reshape to one dimension less: the rows one after the other
flatten(data) ==
    IF data = <<>> THEN <<>> ELSE Head(data) \o flatten(Tail(data))

\* a variant of batch_to_matrix_indices that pairs each index with its
\* column, not its row
batch_to_matrix_indices_cols(tensor, dtype) ==
    LET t == to_tensor_cast(tensor, dtype)
    IN  IF t.dtype # "int32" /\ t.dtype # "int64" THEN Error("TypeError")
        ELSE DenseTensor(<<t.shape[1] * t.shape[2], 2>>,
                flatten(flatten([r \in 1..t.shape[1] |-> [c \in 1..t.shape[2] |->
                                    <<<<c - 1, t.data[r][c]>>>>]])))

batch_to_matrix_indices(tensor, dtype) ==
    LET t == to_tensor_cast(tensor, dtype)
    IN  IF t.dtype # "int32" /\ t.dtype # "int64" THEN Error("TypeError")
        ELSE
            LET shape == t.shape
                \* range, expand_dims and tile: rows[r][c] = r
                rows == [r \in 1..shape[1] |-> [c \in 1..shape[2] |-> r - 1]]
                \* stack on the last axis
                enum == [r \in 1..shape[1] |-> [c \in 1..shape[2] |->
                            <<<<rows[r][c], t.data[r][c]>>>>]]
            IN  DenseTensor(<<shape[1] * shape[2], 2>>, flatten(flatten(enum)))

RECURSIVE index_list_loop(_, _, _, _, _)
\* the two nested loops of index_list_to_sparse, at row `row` (0-based) and
\* position `pos` of it, with the coordinates idx appended so far
index_list_loop(indices, dense_shape, row, pos, idx) ==
    IF row >= Len(indices) THEN SparseTensor(idx, ones(Len(idx)), dense_shape)
    ELSE IF pos > Len(indices[row + 1]) THEN
        index_list_loop(indices, dense_shape, row + 1, 1, idx)
    ELSE IF indices[row + 1][pos] >= dense_shape[2] THEN Error("ValueError")
    ELSE index_list_loop(indices, dense_shape, row, pos + 1,
                         Append(idx, <<row, indices[row + 1][pos]>>))

\* a variant of index_list_to_sparse that refuses an index only when it is
\* greater than the bound
index_list_to_sparse_gt(indices, dense_shape) ==
    LET r == index_list_loop(indices, <<dense_shape[1], dense_shape[2] + 1>>, 0, 1, <<>>)
    IN  IF IsError(r) THEN r ELSE SparseTensor(r.indices, r.values, dense_shape)

index_list_to_sparse(indices, dense_shape) ==
    index_list_loop(indices, dense_shape, 0, 1, <<>>)

(***************************************************************************)
(* complete_shape, flat_to_sparse_indices, flat_indices_to_sparse_tensor   *)
(*                                                                         *)
(* A shape argument is a Python list or a TensorShape; a shape the runtime *)
(* computes is a Tensor.                                                   *)
(***************************************************************************)
ShapeValue(kind, dims) == [kind |-> kind, dims |-> dims]

TensorShape(shape) == ShapeValue("TensorShape", shape.dims)

is_fully_defined(shape) == \A k \in 1..Len(shape.dims) : shape.dims[k] # None

\* ops.convert_to_tensor of a shape: None has no tensor value
convert_to_tensor(shape) ==
    IF is_fully_defined(shape) THEN ShapeValue("Tensor", shape.dims)
    ELSE Error("ValueError")

complete_shape(tensor, shape) ==
    LET tensor_shape == TensorShape(shape)
    IN  IF is_fully_defined(tensor_shape) THEN shape
        \* shape.as_list(): a method of TensorShape, which a list does not have
        ELSE IF shape.kind # "TensorShape" THEN Error("AttributeError")
        ELSE LET dim == shape.dims[2]
                 batch_size == tensor.shape[1]
             IN  convert_to_tensor(ShapeValue("list", <<batch_size, dim>>))

flat_to_sparse_indices(indices, dense_shape) ==
    LET sp_indices == batch_to_matrix_indices(indices, "int64")
        \* dense_shape[0] of a TensorShape is a Dimension, never None itself
        shape == IF dense_shape.kind = "list" /\ dense_shape.dims[1] = None
                 THEN complete_shape(indices, dense_shape)
                 ELSE convert_to_tensor(dense_shape)
    IN  IF IsError(shape) THEN shape
        ELSE SparseTensor(sp_indices.data, flatten(indices.data), shape.dims)

flat_indices_to_sparse_tensor(indices, dense_shape, default_value) ==
    LET sp_indices == batch_to_matrix_indices(indices, "int64")
        shape == complete_shape(indices, TensorShape(dense_shape))
        n_values == sp_indices.shape[1]
        values == constant(default_value, n_values)
    IN  IF IsError(shape) THEN shape
        ELSE SparseTensor(sp_indices.data, values, shape.dims)

(***************************************************************************)
(* sparse_dropout                                                          *)
(*                                                                         *)
(* A keep probability is the fraction num/den, given as a Python number or *)
(* as a tensor fed at run time.  The values are floats: NaN and Inf stand  *)
(* for the two IEEE values a division by zero produces.                    *)
(***************************************************************************)
NaN == -1
Inf == -2

Fraction(num, den) == [num |-> num, den |-> den]

\* math_ops.div(x, keep_prob)
div(x, keep_prob) ==
    IF keep_prob.num = 0 THEN (IF x = 0 THEN NaN ELSE Inf)
    ELSE (x * keep_prob.den) \div keep_prob.num

mul(a, b) ==
    IF a = NaN THEN NaN
    ELSE IF a = Inf THEN (IF b = 0 THEN NaN ELSE Inf)
    ELSE a * b

\* floor(keep_prob + u) for a uniform sample u of [0, 1)
binary_tensor(keep_prob, u) ==
    (keep_prob.num * u.den + u.num * keep_prob.den) \div (keep_prob.den * u.den)

\* a variant of the range check that lets a keep_prob of 0 through
dropout_rejects_negative(keep_prob) ==
    keep_prob.kind = "number" /\ ~(0 <= keep_prob.num /\ keep_prob.num <= keep_prob.den)

\* nn.dropout refuses a keep_prob given as a number outside (0, 1]
dropout_rejects(keep_prob) ==
    keep_prob.kind = "number" /\ ~(0 < keep_prob.num /\ keep_prob.num <= keep_prob.den)

\* nn.dropout on accepted arguments; noise[k] is the uniform sample of element k
dropout(x, keep_prob, noise) ==
    \* the constant value of a keep_prob given as a number is known
    IF keep_prob.kind = "number" /\ keep_prob.num = keep_prob.den THEN x
    ELSE [k \in 1..Len(x) |-> mul(div(x[k], keep_prob), binary_tensor(keep_prob, noise[k]))]

sparse_dropout(sp_tensor, keep_prob, noise) ==
    IF dropout_rejects(keep_prob) THEN Error("ValueError")
    ELSE
        LET dense_shape == sp_tensor.dense_shape
            drop_values == dropout(sp_tensor.values, keep_prob, noise)
            not_zero == not_equal_0(drop_values)
            values == boolean_mask(drop_values, not_zero)
            indices == boolean_mask(sp_tensor.indices, not_zero)
        IN  SparseTensor(indices, values, dense_shape)

(***************************************************************************)
(* Arguments.                                                              *)
(***************************************************************************)
\* the rows of a ragged list: at most width indices each
IndexRows(width) == SeqsUpTo(0..MaxIdx, width)

\* the dense_shape arguments for a batch of n rows
ShapeArgs(n) ==
    {ShapeValue(kind, <<d0, d1>>) :
        kind \in {"list", "TensorShape"}, d0 \in {None, n}, d1 \in {None, MaxIdx + 1}}

KeepProbs ==
    {[kind |-> kind, num |-> f.num, den |-> f.den] :
        kind \in {"number", "tensor"},
        f \in {Fraction(0, 1), Fraction(1, 2), Fraction(1, 1)}}

UniformSamples == {Fraction(0, 1), Fraction(1, 2)}

(***************************************************************************)
(* The state machine.                                                      *)
(***************************************************************************)
Init ==
    /\ call = [op |-> "none"]
    /\ ret = [none |-> TRUE]

CallSparsePut ==
    /\ call.op = "none"
    /\ \E shape \in Shapes :
        \E S \in SparseTensors(shape, MaxEntries, 0..MaxPutVal) :
            \E U \in SparseTensors(shape, MaxEntries - Len(S.indices), 0..MaxPutVal) :
                /\ call' = [op |-> "sparse_put", sp_tensor |-> S, sp_updates |-> U]
                /\ ret' = sparse_put(S, U)

\* the same update put again into what sparse_put returned
CallSparsePutAgain ==
    /\ call.op = "sparse_put"
    /\ ~IsError(ret)
    /\ call' = [op |-> "sparse_put_again", sp_original |-> call.sp_tensor,
                sp_tensor |-> ret, sp_updates |-> call.sp_updates]
    /\ ret' = sparse_put(ret, call.sp_updates)

CallDensePut ==
    /\ call.op = "none"
    /\ \E shape \in Shapes :
        \E d \in DenseData(shape, Values), U \in SparseTensors(shape, MaxNnz, Values) :
            LET T == DenseTensor(shape, d)
            IN  /\ call' = [op |-> "dense_put", tensor |-> T, sp_updates |-> U]
                /\ ret' = dense_put(T, U)

CallToSparse ==
    /\ call.op = "none"
    /\ \E n \in 0..MaxRows, m \in 0..MaxCols :
        \E d \in DenseData(<<n, m>>, Values) :
            LET T == DenseTensor(<<n, m>>, d)
            IN  /\ call' = [op |-> "to_sparse", tensor |-> T]
                /\ ret' = to_sparse(T)

\* to_dense of what to_sparse returned
CallToDense ==
    /\ call.op = "to_sparse"
    /\ call' = [op |-> "to_dense", tensor |-> call.tensor, sp_tensor |-> ret]
    /\ ret' = to_dense(ret)

CallBatchToMatrixIndices ==
    /\ call.op = "none"
    /\ \E n \in 0..MaxBatch, m \in 0..MaxActive, dtype \in {"int32", "int64", "float32"} :
        \E d \in DenseData(<<n, m>>, 0..MaxIdx) :
            LET T == DenseTensor(<<n, m>>, d)
            IN  /\ call' = [op |-> "batch_to_matrix_indices", tensor |-> T,
                            dtype |-> dtype]
                /\ ret' = batch_to_matrix_indices(T, dtype)

CallIndexListToSparse ==
    /\ call.op = "none"
    /\ \E n \in 0..MaxBatch, bound \in 0..(MaxIdx + 1) :
      \E L \in [1..n -> IndexRows(MaxActive)] :
        /\ call' = [op |-> "index_list_to_sparse", indices |-> L,
                    dense_shape |-> <<MaxBatch, bound>>]
        /\ ret' = index_list_to_sparse(L, <<MaxBatch, bound>>)

CallCompleteShape ==
    /\ call.op = "none"
    /\ \E n \in 0..MaxBatch, m \in 0..MaxActive :
        \E d \in DenseData(<<n, m>>, 0..MaxIdx),
           shape \in ShapeArgs(n) \cup ShapeArgs(MaxBatch + 1) :
            LET T == DenseTensor(<<n, m>>, d)
            IN  /\ call' = [op |-> "complete_shape", tensor |-> T, shape |-> shape]
                /\ ret' = complete_shape(T, shape)

CallFlatToSparseIndices ==
    /\ call.op = "none"
    /\ \E n \in 0..MaxBatch, m \in 0..MaxActive :
        \E d \in DenseData(<<n, m>>, 0..MaxIdx), shape \in ShapeArgs(n) :
            LET T == DenseTensor(<<n, m>>, d)
            IN  /\ call' = [op |-> "flat_to_sparse_indices", indices |-> T,
                            dense_shape |-> shape]
                /\ ret' = flat_to_sparse_indices(T, shape)

CallFlatIndicesToSparseTensor ==
    /\ call.op = "none"
    /\ \E n \in 0..MaxBatch, m \in 0..MaxActive, default_value \in Values :
        \E d \in DenseData(<<n, m>>, 0..MaxIdx), shape \in ShapeArgs(n) :
            LET T == DenseTensor(<<n, m>>, d)
            IN  /\ call' = [op |-> "flat_indices_to_sparse_tensor", indices |-> T,
                            dense_shape |-> shape, default_value |-> default_value]
                /\ ret' = flat_indices_to_sparse_tensor(T, shape, default_value)

CallSparseDropout ==
    /\ call.op = "none"
    /\ \E shape \in Shapes :
        \E S \in SparseTensors(shape, MaxNnz, Values), keep_prob \in KeepProbs :
            \E noise \in [1..Len(S.values) -> UniformSamples] :
                /\ call' = [op |-> "sparse_dropout", sp_tensor |-> S,
                            keep_prob |-> keep_prob, noise |-> noise]
                /\ ret' = sparse_dropout(S, keep_prob, noise)

NextPut == CallSparsePut \/ CallSparsePutAgain

NextDensePut == CallDensePut

NextDense == CallToSparse \/ CallToDense

NextIndex == CallBatchToMatrixIndices \/ CallIndexListToSparse

NextFlat == CallCompleteShape \/ CallFlatToSparseIndices \/ CallFlatIndicesToSparseTensor

NextDropout == CallSparseDropout

Next == NextPut \/ NextDensePut \/ NextDense \/ NextIndex \/ NextFlat \/ NextDropout

\* sparse_put alone
SpecPut == Init /\ [][NextPut]_vars

\* dense_put alone
SpecDensePut == Init /\ [][NextDensePut]_vars

\* the dense/sparse conversions
SpecDense == Init /\ [][NextDense]_vars

\* the index expansions
SpecIndex == Init /\ [][NextIndex]_vars

\* the flat-index conversions and their shape completion
SpecFlat == Init /\ [][NextFlat]_vars

\* sparse_dropout alone
SpecDropout == Init /\ [][NextDropout]_vars

\* every function of the module
Spec == Init /\ [][Next]_vars

(***************************************************************************)
(* Reading tensors, for the properties below.                              *)
(***************************************************************************)
Positions(sp, c) == {k \in 1..Len(sp.indices) : sp.indices[k] = c}

\* the logical value of sp at c is v: every entry stored at c holds v, and a
\* coordinate with no entry holds the default zero
HoldsAt(sp, c, v) ==
    IF Positions(sp, c) = {} THEN v = 0
    ELSE \A k \in Positions(sp, c) : sp.values[k] = v

\* the value at c of a SparseTensor with distinct coordinates
ValueAt(sp, c) ==
    IF Positions(sp, c) = {} THEN 0
    ELSE sp.values[CHOOSE k \in Positions(sp, c) : TRUE]

\* what putting U into S is to leave at c
PutValue(S, U, c) ==
    IF Positions(U, c) # {} THEN ValueAt(U, c) ELSE ValueAt(S, c)

\* R is S with the entries of U put over it
PutOverrides(S, U, R) ==
    /\ ~IsError(R)
    /\ R.dense_shape = S.dense_shape
    /\ \A c \in Coords(S.dense_shape) : HoldsAt(R, c, PutValue(S, U, c))

WellFormedPair(S, U) ==
    /\ S.dense_shape = U.dense_shape
    /\ Distinct(S.indices)
    /\ Distinct(U.indices)

DensePutOverrides(T, U, R) ==
    /\ ~IsError(R)
    /\ R.shape = T.shape
    /\ \A r \in 1..T.shape[1], c \in 1..T.shape[2] :
        R.data[r][c] = IF Positions(U, <<r - 1, c - 1>>) # {}
                       THEN ValueAt(U, <<r - 1, c - 1>>)
                       ELSE T.data[r][c]

\* C3 as stated: for any T and any SparseTensor U of T's shape
C3_DensePutAnyOrder ==
    (call.op = "dense_put" /\ call.sp_updates.dense_shape = call.tensor.shape
     /\ Distinct(call.sp_updates.indices))
        => DensePutOverrides(call.tensor, call.sp_updates, ret)

\* C3 amended: for U whose indices are in row-major order
C3_DensePut ==
    (call.op = "dense_put" /\ call.sp_updates.dense_shape = call.tensor.shape
     /\ RowMajor(call.sp_updates.indices))
        => DensePutOverrides(call.tensor, call.sp_updates, ret)

\* a zero update has overridden a non-zero element, next to a non-zero
\* element that was kept
C3_Witness ==
    /\ call.op = "dense_put"
    /\ RowMajor(call.sp_updates.indices)
    /\ ~IsError(ret)
    /\ \E c, e \in Coords(call.tensor.shape) :
        /\ Positions(call.sp_updates, c) # {}
        /\ ValueAt(call.sp_updates, c) = 0
        /\ call.tensor.data[c[1] + 1][c[2] + 1] # 0
        /\ ret.data[c[1] + 1][c[2] + 1] = 0
        /\ Positions(call.sp_updates, e) = {}
        /\ call.tensor.data[e[1] + 1][e[2] + 1] # 0
        /\ ret.data[e[1] + 1][e[2] + 1] = call.tensor.data[e[1] + 1][e[2] + 1]

(***************************************************************************)
(* C4: to_sparse(T) stores exactly the non-zero coordinates of T, in       *)
(* row-major order, with their values and T's shape, and to_dense gives T  *)
(* back.                                                                   *)
(***************************************************************************)
NonZeroCoords(T) == {c \in Coords(T.shape) : T.data[c[1] + 1][c[2] + 1] # 0}

C4_RoundTrip ==
    /\ call.op = "to_sparse" =>
        /\ ~IsError(ret)
        /\ ret.dense_shape = call.tensor.shape
        /\ {ret.indices[k] : k \in 1..Len(ret.indices)} = NonZeroCoords(call.tensor)
        /\ RowMajor(ret.indices)
        /\ Len(ret.values) = Len(ret.indices)
        /\ \A k \in 1..Len(ret.indices) :
            ret.values[k] = call.tensor.data[ret.indices[k][1] + 1][ret.indices[k][2] + 1]
    /\ call.op = "to_dense" => ret = call.tensor

\* a tensor with a zero and two different non-zero values, the larger one
\* first in row-major order, has gone to sparse and back
C4_Witness ==
    /\ call.op = "to_dense"
    /\ ret = call.tensor
    /\ Len(call.sp_tensor.values) >= 2
    /\ call.sp_tensor.values[1] > call.sp_tensor.values[2]
    /\ call.sp_tensor.indices[1][1] < call.sp_tensor.indices[2][1]
    /\ call.sp_tensor.indices[1][2] > call.sp_tensor.indices[2][2]
    /\ \E c \in Coords(call.tensor.shape) : call.tensor.data[c[1] + 1][c[2] + 1] = 0

(***************************************************************************)
(* C5: batch_to_matrix_indices of an [n, m] batch returns n*m rows of      *)
(* width 2, row r*m + c being [r, tensor[r][c]], so that every first       *)
(* component lies in [0, n).                                               *)
(***************************************************************************)
C5_IndexExpansion ==
    (call.op = "batch_to_matrix_indices" /\ call.dtype \in {"int32", "int64"}) =>
        LET n == call.tensor.shape[1]
            m == call.tensor.shape[2]
        IN  /\ ~IsError(ret)
            /\ ret.shape = <<n * m, 2>>
            /\ Len(ret.data) = n * m
            /\ \A r \in 0..(n - 1), c \in 0..(m - 1) :
                ret.data[r * m + c + 1] = <<r, call.tensor.data[r + 1][c + 1]>>
            /\ \A k \in 1..Len(ret.data) :
                Len(ret.data[k]) = 2 /\ ret.data[k][1] \in 0..(n - 1)

\* a 2 x 2 batch whose rows differ has been expanded
C5_Witness ==
    /\ call.op = "batch_to_matrix_indices"
    /\ call.dtype = "int32"
    /\ call.tensor.shape = <<2, 2>>
    /\ call.tensor.data[1] # call.tensor.data[2]
    /\ call.tensor.data[2][1] # call.tensor.data[2][2]
    /\ Len(ret.data) = 4
    /\ ret.data[3] = <<1, call.tensor.data[2][1]>>
    /\ ret.data[4] = <<1, call.tensor.data[2][2]>>

(***************************************************************************)
(* C6: index_list_to_sparse raises ValueError exactly when some index of   *)
(* some row is >= dense_shape[1]; otherwise it returns the coordinates     *)
(* [row, i] row by row in list order, a value 1 for each, and the given    *)
(* dense_shape.                                                            *)
(***************************************************************************)
RECURSIVE RowOffset(_, _)
\* how many indices the rows before row r hold
RowOffset(L, r) == IF r <= 1 THEN 0 ELSE RowOffset(L, r - 1) + Len(L[r - 1])

OutOfRange(L, bound) == \E r \in 1..Len(L) : \E p \in 1..Len(L[r]) : L[r][p] >= bound

Emptied(S, R) ==
    /\ ~IsError(R)
    /\ R.indices = <<>>
    /\ R.values = <<>>
    /\ R.dense_shape = S.dense_shape

\* C7 as stated
C7_ZeroKeepProbEmpties ==
    (call.op = "sparse_dropout" /\ call.keep_prob.num = 0) => Emptied(call.sp_tensor, ret)

\* the random mask of the call has dropped every element
AllDropped ==
    \A k \in 1..Len(call.noise) : binary_tensor(call.keep_prob, call.noise[k]) = 0

\* C7 amended: keep_prob = 0 empties nothing: given as a number it is
\* refused with a ValueError, given as a tensor it turns every value into
\* NaN, which is not zero, so every entry stays; the result is emptied when a
\* keep_prob inside (0, 1) drops every entry
C7_Shrinkage ==
    call.op = "sparse_dropout" =>
        /\ (call.keep_prob.num = 0 /\ call.keep_prob.kind = "number") =>
            ret = Error("ValueError")
        /\ (call.keep_prob.num = 0 /\ call.keep_prob.kind = "tensor") =>
            ret = SparseTensor(call.sp_tensor.indices,
                               [k \in 1..Len(call.sp_tensor.values) |-> NaN],
                               call.sp_tensor.dense_shape)
        /\ (0 < call.keep_prob.num /\ call.keep_prob.num < call.keep_prob.den
            /\ AllDropped) => Emptied(call.sp_tensor, ret)

\* a keep_prob of 0, given as a number, has been refused on a two-entry input
C7_Witness ==
    /\ call.op = "sparse_dropout"
    /\ call.keep_prob.num = 0
    /\ call.keep_prob.kind = "number"
    /\ Len(call.sp_tensor.indices) = 2
    /\ \A k \in 1..2 : call.sp_tensor.values[k] # 0
    /\ ret = Error("ValueError")

(***************************************************************************)
(* C8: complete_shape gives [b, d] for a shape [None, d] and a reference   *)
(* tensor whose leading dimension is b, and gives a fully defined shape    *)
(* back unchanged.                                                         *)
(***************************************************************************)
C8_CompleteShape ==
    call.op = "complete_shape" =>
        /\ (call.shape.dims[1] = None /\ call.shape.dims[2] # None) =>
            /\ ~IsError(ret)
            /\ ret.dims = <<call.tensor.shape[1], call.shape.dims[2]>>
        /\ is_fully_defined(call.shape) => ret = call.shape

(***************************************************************************)
(* C9: for a batch of flat indices, flat_to_sparse_indices and             *)
(* flat_indices_to_sparse_tensor return a SparseTensor whose coordinates   *)
(* are those of batch_to_matrix_indices, in its order, with one value a    *)
(* coordinate: the flat index itself in the first, default_value in the    *)
(* second.  The trailing dimension of dense_shape is explicit.             *)
(***************************************************************************)
ExpandedCoords(T) ==
    LET m == T.shape[2]
    IN  [k \in 1..(T.shape[1] * m) |->
            <<(k - 1) \div m, T.data[((k - 1) \div m) + 1][((k - 1) % m) + 1]>>]

C9_FlatConversions ==
    (call.op \in {"flat_to_sparse_indices", "flat_indices_to_sparse_tensor"}
     /\ call.dense_shape.dims[2] # None) =>
        /\ ~IsError(ret)
        /\ ret.indices = ExpandedCoords(call.indices)
        /\ Len(ret.values) = call.indices.shape[1] * call.indices.shape[2]
        /\ \A k \in 1..Len(ret.values) :
            ret.values[k] = IF call.op = "flat_to_sparse_indices"
                            THEN ret.indices[k][2]
                            ELSE call.default_value

(***************************************************************************)
(* C10: every SparseTensor a function of the module returns has as many    *)
(* values as coordinates and no coordinate twice, given arguments that     *)
(* satisfy the same.                                                       *)
(***************************************************************************)
ReturnsSparse ==
    call.op \in {"sparse_put", "sparse_put_again", "to_sparse", "sparse_dropout",
                 "flat_to_sparse_indices", "flat_indices_to_sparse_tensor",
                 "index_list_to_sparse"}

ArgumentsUnique ==
    /\ call.op \in {"sparse_put", "sparse_put_again"} =>
        /\ Distinct(call.sp_tensor.indices)
        /\ Len(call.sp_tensor.values) = Len(call.sp_tensor.indices)
        /\ Distinct(call.sp_updates.indices)
        /\ Len(call.sp_updates.values) = Len(call.sp_updates.indices)
    /\ call.op = "sparse_dropout" =>
        /\ Distinct(call.sp_tensor.indices)
        /\ Len(call.sp_tensor.values) = Len(call.sp_tensor.indices)

C10_Uniqueness ==
    (ReturnsSparse /\ ArgumentsUnique /\ ~IsError(ret)) =>
        /\ Len(ret.values) = Len(ret.indices)
        /\ Distinct(ret.indices)

====
